---- MODULE Spec2Model ----
(***************************************************************************)
(* A model of epub-thumbnailer.py: the size normaliser (_parse_size), the  *)
(* two cover resolvers (get_cover_from_manifest, get_cover_by_filename),   *)
(* the extractor (extract_cover) and the orchestrator (get_cover).         *)
(*                                                                         *)
(* Python strings are sequences of one-character strings, so that the      *)
(* regular expressions, str.lower, str.split, os.path.dirname and          *)
(* os.path.join are computed character by character.  Python values are    *)
(* records tagged with their type (field t).  POSIX paths are assumed.     *)
(***************************************************************************)
EXTENDS Integers, Sequences, FiniteSets, TLC

VARIABLES pc, size_arg, fileState, outFile, writes, epub, size, strategy,
          cover_path, exc, result, handles, im, calls

vars == <<pc, size_arg, fileState, outFile, writes, epub, size, strategy,
          cover_path, exc, result, handles, im, calls>>

(***************************************************************************)
(* Bounds of the model.                                                    *)
(***************************************************************************)
MaxSizeLen == 3
MaxItems == 2
MaxImages == 3
MaxBookItems == 2
MaxBookEntries == 2

(***************************************************************************)
(* Python values.                                                          *)
(***************************************************************************)
PyNone == [t |-> "None"]
PyStr(s) == [t |-> "str", v |-> s]
PyInt(n) == [t |-> "int", n |-> n]
PyList == [t |-> "list"]
PyZipInfo(f) == [t |-> "ZipInfo", info |-> f]

\* bool(v) of Python: None, 0 and the empty string are falsy.
Truthy(v) ==
    CASE v.t = "None" -> FALSE
      [] v.t = "int" -> v.n # 0
      [] v.t = "str" -> v.v # <<>>
      [] OTHER -> TRUE

NoExc == [type |-> "none"]
Raise(type, msg) == [type |-> type, msg |-> msg]

(***************************************************************************)
(* Characters and strings.                                                 *)
(***************************************************************************)
UpperCase == <<"A","B","C","D","E","F","G","H","I","J","K","L","M",
               "N","O","P","Q","R","S","T","U","V","W","X","Y","Z">>
LowerCase == <<"a","b","c","d","e","f","g","h","i","j","k","l","m",
               "n","o","p","q","r","s","t","u","v","w","x","y","z">>
Digits == <<"0","1","2","3","4","5","6","7","8","9">>

LowerChar(c) ==
    IF \E i \in 1..Len(UpperCase) : UpperCase[i] = c
    THEN LowerCase[CHOOSE i \in 1..Len(UpperCase) : UpperCase[i] = c]
    ELSE c

\* str.lower()
Lower(s) == [i \in 1..Len(s) |-> LowerChar(s[i])]

IsDigit(c) == \E i \in 1..Len(Digits) : Digits[i] = c
DigitVal(c) == (CHOOSE i \in 1..Len(Digits) : Digits[i] = c) - 1

\* s[i:i+len(lit)] == lit
HasAt(s, i, lit) ==
    /\ i >= 1
    /\ i + Len(lit) - 1 <= Len(s)
    /\ SubSeq(s, i, i + Len(lit) - 1) = lit

\* lit in s
Contains(s, lit) == \E i \in 1..(Len(s) + 1) : HasAt(s, i, lit)

\* every character of s[1..n] is one that the regex "." matches
NoNewline(s, n) == \A i \in 1..n : s[i] # "\n"

(***************************************************************************)
(* Size normaliser.                                                        *)
(***************************************************************************)
DefaultSize == 256

\* size_regex = re.compile(r'\d{1,4}[xX]\d{1,4}'), used with .match (anchored
\* at the start only): one to four digits, x or X, at least one digit.
size_regex_match(s) ==
    \E p \in 2..5 :
        /\ p + 1 <= Len(s)
        /\ \A i \in 1..(p - 1) : IsDigit(s[i])
        /\ s[p] \in {"x", "X"}
        /\ IsDigit(s[p + 1])

\* s.split('x', 1)
SplitX(s) ==
    IF \E i \in 1..Len(s) : s[i] = "x"
    THEN LET p == CHOOSE i \in 1..Len(s) :
                      s[i] = "x" /\ \A j \in 1..(i - 1) : s[j] # "x"
         IN <<SubSeq(s, 1, p - 1), SubSeq(s, p + 1, Len(s))>>
    ELSE <<s>>

RECURSIVE DecimalValue(_)
DecimalValue(s) ==
    IF s = <<>> THEN 0
    ELSE 10 * DecimalValue(SubSeq(s, 1, Len(s) - 1)) + DigitVal(s[Len(s)])

\* float(s) on strings over SizeChars: a non-empty run of decimal digits
\* converts, anything else (a second x, a letter) raises ValueError.
FloatOk(s) == s # <<>> /\ \A i \in 1..Len(s) : IsDigit(s[i])
FloatValue(s) == DecimalValue(s)

Returned(v) == [ok |-> TRUE, val |-> v]
Raised(e) == [ok |-> FALSE, exc |-> e]

_parse_size(sz) ==
    IF ~Truthy(sz) THEN Returned(<<DefaultSize, DefaultSize>>)
    ELSE IF sz.t = "int" THEN Returned(<<sz.n, sz.n>>)
    ELSE IF sz.t = "str" THEN
        IF ~size_regex_match(sz.v) THEN Raised(Raise("ValueError", "prompt"))
        ELSE LET parts == SplitX(Lower(sz.v))
             IN IF \A i \in 1..Len(parts) : FloatOk(parts[i])
                THEN Returned([i \in 1..Len(parts) |-> FloatValue(parts[i])])
                ELSE Raised(Raise("ValueError", "Cannot parse floats from size parameter"))
    ELSE Raised(Raise("ValueError", "prompt"))

(***************************************************************************)
(* Inputs of the size normaliser.                                          *)
(***************************************************************************)
SizeChars == {"0", "1", "7", "x", "X", "a"}

RECURSIVE StringsUpTo(_, _)
StringsUpTo(chars, n) ==
    IF n = 0 THEN {<<>>}
    ELSE LET shorter == StringsUpTo(chars, n - 1)
         IN shorter \cup {Append(s, c) : s \in shorter, c \in chars}

SizeNumbers == {-3, -1, 0, 1, 256, 500}

SizeInputs ==
    {PyNone, PyList}
        \cup {PyInt(n) : n \in SizeNumbers}
        \cup {PyStr(s) : s \in StringsUpTo(SizeChars, MaxSizeLen)}
        \cup {PyStr(<<"1","2","3","4","5","x","1">>),
              PyStr(<<"1","2","3","4","X","1","0">>),
              PyStr(<<"1","0","x","7","x","1">>)}

(***************************************************************************)
(* Regular expressions of the resolvers.                                   *)
(***************************************************************************)
ImgExts == {<<".","j","p","g">>, <<".","j","p","e","g">>, <<".","p","n","g">>}
S_cover == <<"c","o","v","e","r">>

\* Where "$" matches: at the end, and before a final line break.
DollarPositions(s) ==
    {Len(s)} \cup (IF s # <<>> /\ s[Len(s)] = "\n" THEN {Len(s) - 1} ELSE {})

\* img_ext_regex = re.compile(r'^.*\.(jpg|jpeg|png)$', flags=re.IGNORECASE)
img_ext_regex_match(s) ==
    \E n \in DollarPositions(s) :
        LET low == Lower(SubSeq(s, 1, n))
        IN \E ext \in ImgExts :
               LET k == n - Len(ext) + 1
               IN /\ k >= 1
                  /\ HasAt(low, k, ext)
                  /\ NoNewline(s, k - 1)

\* cover_regex = re.compile(r'.*cover.*\.(jpg|jpeg|png)', flags=re.IGNORECASE)
\* used with .match: anchored at the start, free at the end.
cover_regex_match(s) ==
    LET low == Lower(s)
    IN \E i \in 1..Len(s) :
           /\ HasAt(low, i, S_cover)
           /\ \E k \in (i + Len(S_cover))..Len(s) :
                  /\ \E ext \in ImgExts : HasAt(low, k, ext)
                  /\ NoNewline(s, k - 1)

(***************************************************************************)
(* os.path.dirname and os.path.join (posixpath).                           *)
(***************************************************************************)
RECURSIVE RStripSlash(_)
RStripSlash(s) ==
    IF s # <<>> /\ s[Len(s)] = "/" THEN RStripSlash(SubSeq(s, 1, Len(s) - 1))
    ELSE s

\* p.rfind('/') + 1
AfterLastSlash(p) ==
    IF \E i \in 1..Len(p) : p[i] = "/"
    THEN CHOOSE i \in 1..Len(p) : p[i] = "/" /\ \A j \in (i + 1)..Len(p) : p[j] # "/"
    ELSE 0

dirname(p) ==
    LET head == SubSeq(p, 1, AfterLastSlash(p))
    IN IF head # <<>> /\ \E i \in 1..Len(head) : head[i] # "/"
       THEN RStripSlash(head)
       ELSE head

join(a, b) ==
    IF b # <<>> /\ b[1] = "/" THEN b
    ELSE IF a = <<>> \/ a[Len(a)] = "/" THEN a \o b
    ELSE a \o <<"/">> \o b

(***************************************************************************)
(* The archive: epub.filelist is a sequence of entries, each with a        *)
(* filename, a file_size and its data.  Data is an XML document (the       *)
(* elements minidom finds by tag name: rootfile, meta, manifest), an image *)
(* (its mode, and whether its pixel data is intact) or other bytes.        *)
(***************************************************************************)
ContainerPath == <<"M","E","T","A","-","I","N","F","/","c","o","n","t","a","i","n","e","r",".","x","m","l">>

Xml(rootfiles, metas, manifests) ==
    [k |-> "xml", rootfile |-> rootfiles, meta |-> metas, manifest |-> manifests]
ImageData(mode, intact) == [k |-> "image", mode |-> mode, intact |-> intact]
Junk == [k |-> "junk"]

Entry(name, bytes, data) == [filename |-> name, file_size |-> bytes, data |-> data]
Archive(entries) == [filelist |-> entries]

HasEntry(e, name) == \E i \in 1..Len(e.filelist) : e.filelist[i].filename = name

\* ZipFile.getinfo: NameToInfo keeps the last entry stored under a name.
GetInfo(e, name) ==
    e.filelist[CHOOSE i \in 1..Len(e.filelist) :
                   /\ e.filelist[i].filename = name
                   /\ \A j \in (i + 1)..Len(e.filelist) : e.filelist[j].filename # name]

\* The outcome of a resolver: what it returned or raised, and the entry
\* streams it opened (it closes none of them).
StratReturned(v, opened) == [ok |-> TRUE, val |-> v, opened |-> opened]
StratRaised(e, opened) == [ok |-> FALSE, exc |-> e, opened |-> opened]

(***************************************************************************)
(* Manifest cover resolver.                                                *)
(***************************************************************************)
\* lines 66-70: the content of the first meta named cover, else None
RECURSIVE FindCoverId(_, _)
FindCoverId(metas, i) ==
    IF i > Len(metas) THEN PyNone
    ELSE IF metas[i].name = S_cover THEN PyStr(metas[i].content)
    ELSE FindCoverId(metas, i + 1)

\* ItemMightBeCover with the two tests of the properties attribute left out.
ItemMightBeCover_IdOnly(item, cover_id) ==
    \/ PyStr(item.id) = cover_id
    \/ (Contains(item.id, S_cover) /\ img_ext_regex_match(Lower(item.href)))

\* lines 75-83: the test applied to one manifest item
ItemMightBeCover(item, cover_id) ==
    LET item_href_is_image == img_ext_regex_match(Lower(item.href))
        item_id_might_be_cover ==
            \/ PyStr(item.id) = cover_id
            \/ (Contains(item.id, S_cover) /\ item_href_is_image)
        item_properties_might_be_cover ==
            \/ PyStr(item.properties) = cover_id
            \/ (Contains(item.properties, S_cover) /\ item_href_is_image)
    IN item_id_might_be_cover \/ item_properties_might_be_cover

\* lines 74-86: the loop over the items, returning at the first match
RECURSIVE ScanItems(_, _, _, _)
ScanItems(items, i, cover_id, rootfile_path) ==
    IF i > Len(items) THEN PyNone
    ELSE IF ItemMightBeCover(items[i], cover_id)
         THEN PyStr(join(dirname(rootfile_path), items[i].href))
         ELSE ScanItems(items, i + 1, cover_id, rootfile_path)

get_cover_from_manifest(e) ==
    IF ~HasEntry(e, ContainerPath)
    THEN StratRaised(Raise("KeyError", "container"), {})
    ELSE LET container == GetInfo(e, ContainerPath).data
         IN IF container.k # "xml"
            THEN StratRaised(Raise("ExpatError", "container"), {"container"})
            ELSE IF container.rootfile = <<>>
            THEN StratRaised(Raise("IndexError", "rootfile"), {"container"})
            ELSE LET rootfile_path == container.rootfile[1]
                 IN IF ~HasEntry(e, rootfile_path)
                    THEN StratRaised(Raise("KeyError", "rootfile"), {"container"})
                    ELSE LET rootfile == GetInfo(e, rootfile_path).data
                             both == {"container", "rootfile"}
                         IN IF rootfile.k # "xml"
                            THEN StratRaised(Raise("ExpatError", "rootfile"), both)
                            ELSE IF rootfile.manifest = <<>>
                            THEN StratRaised(Raise("IndexError", "manifest"), both)
                            ELSE StratReturned(
                                     ScanItems(rootfile.manifest[1], 1,
                                               FindCoverId(rootfile.meta, 1),
                                               rootfile_path),
                                     both)

(***************************************************************************)
(* Filename heuristic resolver.                                            *)
(***************************************************************************)
\* max(images, key=lambda f: f.file_size): the first of the largest.  The
\* element of the list is returned, a ZipInfo, not its filename.
_choose_best_image(images) ==
    IF images # <<>>
    THEN LET best == CHOOSE i \in 1..Len(images) :
                         /\ \A j \in 1..Len(images) :
                                images[j].file_size <= images[i].file_size
                         /\ \A j \in 1..(i - 1) :
                                images[j].file_size < images[i].file_size
         IN PyZipInfo(images[best])
    ELSE PyNone

\* lines 98-104: the scan of epub.filelist
RECURSIVE ScanFilelist(_, _, _)
ScanFilelist(filelist, i, no_matching_images) ==
    IF i > Len(filelist) THEN _choose_best_image(no_matching_images)
    ELSE IF cover_regex_match(filelist[i].filename)
         THEN PyStr(filelist[i].filename)
         ELSE ScanFilelist(filelist, i + 1,
                  IF img_ext_regex_match(filelist[i].filename)
                  THEN Append(no_matching_images, filelist[i])
                  ELSE no_matching_images)

\* get_cover_by_filename returning the lower-cased name of what it found.
get_cover_by_filename_Lowered(e) ==
    LET found == ScanFilelist(e.filelist, 1, <<>>)
    IN StratReturned(
           CASE found.t = "str" -> PyStr(Lower(found.v))
             [] found.t = "ZipInfo" -> PyStr(Lower(found.info.filename))
             [] OTHER -> found,
           {})

get_cover_by_filename(e) == StratReturned(ScanFilelist(e.filelist, 1, <<>>), {})

(***************************************************************************)
(* get_cover, step by step.                                                *)
(*                                                                         *)
(* pc         where get_cover is: "start", "open", "strategy", "extract",  *)
(*            "decode", "thumbnail", "convert", "save", "return_output",   *)
(*            "exhausted", "except", and at the end "done" or "raised"     *)
(* size_arg   the size argument                                            *)
(* fileState  the input file: "missing", "notzip" or "zip"                 *)
(* epub       the archive the input file holds (the ZipFile once opened)   *)
(* outFile    the output file: "absent", "old", "partial" or "thumbnail"   *)
(* writes     how many times the output file was opened for writing        *)
(* size       the pair _parse_size returned                                *)
(* strategy   the index of the loop over extraction_strategies             *)
(* cover_path the value the strategy returned                              *)
(* exc        the exception in flight, or the one raised to the caller     *)
(* result     the value returned to the caller                             *)
(* handles    the archive and entry streams that are open                  *)
(* im         the image object of extract_cover                            *)
(* calls      the calls of the loop that completed, with their outcomes    *)
(***************************************************************************)
OutputPath == <<"o","u","t",".","p","n","g">>
NoImage == [mode |-> "none", intact |-> FALSE, resized |-> FALSE]
StrategyNames == <<"get_cover_from_manifest", "get_cover_by_filename">>

\* The modes the PNG writer of PIL encodes, among those the model draws.
PngModes == {"RGB", "L"}

Call(fn, outcome) == [fn |-> fn, outcome |-> outcome]

\* No function of the module closes what it opens.  When a function returns
\* normally its local streams lose their last reference, and whether that
\* closes them there depends on the interpreter (reference counting does,
\* a tracing collector does not): both outcomes are kept.  When it raises,
\* the traceback keeps its frame and the streams stay open.
Finalized(locals) == {{}, locals}

\* lines 168-177 and 194: _formal_checks
FormalChecks ==
    /\ pc = "start"
    /\ LET r == _parse_size(size_arg)
       IN IF r.ok
          THEN /\ size' = r.val
               /\ pc' = "open"
               /\ exc' = exc
          ELSE /\ size' = size
               /\ pc' = "raised"
               /\ exc' = r.exc
    /\ UNCHANGED <<size_arg, fileState, outFile, writes, epub, strategy,
                   cover_path, result, handles, im, calls>>

\* lines 197-203: the existence check, the read of the file, ZipFile(...)
OpenArchive ==
    /\ pc = "open"
    /\ IF fileState = "missing"
       THEN /\ exc' = Raise("ValueError", "does not exists")
            /\ pc' = "raised"
            /\ UNCHANGED <<handles, strategy>>
       ELSE IF fileState = "notzip"
       THEN /\ exc' = Raise("BadZipFile", "File is not a zip file")
            /\ pc' = "raised"
            /\ UNCHANGED <<handles, strategy>>
       ELSE /\ handles' = {"epub"}
            /\ strategy' = 1
            /\ pc' = "strategy"
            /\ exc' = exc
    /\ UNCHANGED <<size_arg, fileState, outFile, writes, epub, size,
                   cover_path, result, im, calls>>

\* line 207, what both calls of strategy(epub) share
CallStrategy(r) ==
    /\ calls' = Append(calls, Call(StrategyNames[strategy],
                                   IF r.ok THEN "returned" ELSE "raised"))
    /\ IF r.ok
       THEN /\ cover_path' = r.val
            /\ pc' = "extract"
            /\ exc' = exc
            /\ \E closed \in Finalized(r.opened) :
                   handles' = handles \cup (r.opened \ closed)
       ELSE /\ cover_path' = cover_path
            /\ pc' = "except"
            /\ exc' = r.exc
            /\ handles' = handles \cup r.opened
    /\ UNCHANGED <<size_arg, fileState, outFile, writes, epub, size, strategy,
                   result, im>>

\* line 207 with strategy = get_cover_from_manifest
CallManifestStrategy ==
    /\ pc = "strategy"
    /\ strategy = 1
    /\ CallStrategy(get_cover_from_manifest(epub))

\* line 207 with strategy = get_cover_by_filename
CallFilenameStrategy ==
    /\ pc = "strategy"
    /\ strategy = 2
    /\ CallStrategy(get_cover_by_filename(epub))

\* lines 124, 132 and 205: extract_cover returns False, the loop goes on
ExtractCoverNone ==
    /\ pc = "extract"
    /\ ~Truthy(cover_path)
    /\ calls' = Append(calls, Call("extract_cover", "False"))
    /\ strategy' = strategy + 1
    /\ pc' = IF strategy < Len(StrategyNames) THEN "strategy" ELSE "exhausted"
    /\ UNCHANGED <<size_arg, fileState, outFile, writes, epub, size,
                   cover_path, exc, result, handles, im>>

\* The entry a candidate names: ZipFile.open takes a name or a ZipInfo.
CandidateExists(e, candidate) ==
    \/ candidate.t = "ZipInfo"
    \/ candidate.t = "str" /\ HasEntry(e, candidate.v)
CandidateEntry(e, candidate) ==
    IF candidate.t = "ZipInfo" THEN candidate.info ELSE GetInfo(e, candidate.v)

ExtractFails(e) ==
    /\ exc' = e
    /\ pc' = "except"
    /\ calls' = Append(calls, Call("extract_cover", "raised"))

\* line 125: cover = epub.open(cover_path)
ExtractCoverOpen ==
    /\ pc = "extract"
    /\ Truthy(cover_path)
    /\ IF CandidateExists(epub, cover_path)
       THEN /\ handles' = handles \cup {"cover"}
            /\ pc' = "decode"
            /\ UNCHANGED <<exc, calls>>
       ELSE /\ ExtractFails(Raise("KeyError", "cover"))
            /\ handles' = handles
    /\ UNCHANGED <<size_arg, fileState, outFile, writes, epub, size, strategy,
                   cover_path, result, im>>

\* line 126: im = Image.open(BytesIO(cover.read()))
ExtractCoverDecode ==
    /\ pc = "decode"
    /\ LET data == CandidateEntry(epub, cover_path).data
       IN IF data.k = "image"
          THEN /\ im' = [mode |-> data.mode, intact |-> data.intact,
                         resized |-> FALSE]
               /\ pc' = "thumbnail"
               /\ UNCHANGED <<exc, calls>>
          ELSE /\ ExtractFails(Raise("UnidentifiedImageError", "cover"))
               /\ im' = im
    /\ UNCHANGED <<size_arg, fileState, outFile, writes, epub, size, strategy,
                   cover_path, result, handles>>

\* line 127: im.thumbnail(size, Image.ANTIALIAS) loads the pixel data and
\* resizes it (a PIL that still has Image.ANTIALIAS is assumed); what PIL
\* makes of a box that is not positive depends on its version (a division
\* by zero, a failed resize, an image left as it is).
ExtractCoverThumbnail ==
    /\ pc = "thumbnail"
    /\ \/ /\ im.intact
          /\ im' = [im EXCEPT !.resized = TRUE]
          /\ pc' = "convert"
          /\ UNCHANGED <<exc, calls>>
       \/ /\ ~im.intact
          /\ ExtractFails(Raise("OSError", "image file is truncated"))
          /\ im' = im
       \/ /\ im.intact
          /\ size[1] <= 0 \/ size[2] <= 0
          /\ ExtractFails(Raise("ValueError", "thumbnail size"))
          /\ im' = im
    /\ UNCHANGED <<size_arg, fileState, outFile, writes, epub, size, strategy,
                   cover_path, result, handles>>

\* lines 128-129
ExtractCoverConvert ==
    /\ pc = "convert"
    /\ im' = IF im.mode = "CMYK" THEN [im EXCEPT !.mode = "RGB"] ELSE im
    /\ pc' = "save"
    /\ UNCHANGED <<size_arg, fileState, outFile, writes, epub, size, strategy,
                   cover_path, exc, result, handles, calls>>

\* lines 130-131 and 208: im.save(output_file, "PNG") writes the whole file
\* and extract_cover returns True
ExtractCoverSave ==
    /\ pc = "save"
    /\ im.mode \in PngModes
    /\ outFile' = "thumbnail"
    /\ writes' = writes + 1
    /\ calls' = Append(calls, Call("extract_cover", "True"))
    /\ \E closed \in Finalized({"cover"}) : handles' = handles \ closed
    /\ pc' = "return_output"
    /\ UNCHANGED <<size_arg, fileState, epub, size, strategy, cover_path, exc,
                   result, im>>

\* line 130, im.save raising.  Either the output file cannot be opened for
\* writing and is left as it was, or it was opened (created or truncated)
\* and the encoder or a write then fails, as the encoder does for a mode
\* PNG cannot encode.  The file opened is left partial, or removed again
\* when save had created it (PIL versions differ).
ExtractCoverSaveFails ==
    /\ pc = "save"
    /\ \/ UNCHANGED <<outFile, writes>>
       \/ /\ writes' = writes + 1
          /\ outFile' \in {"partial"} \cup
                          (IF outFile = "absent" THEN {"absent"} ELSE {})
    /\ ExtractFails(Raise("OSError", "save"))
    /\ UNCHANGED <<size_arg, fileState, epub, size, strategy, cover_path,
                   result, handles, im>>

\* line 209: return output_file
ReturnOutput ==
    /\ pc = "return_output"
    /\ result' = PyStr(OutputPath)
    /\ pc' = "done"
    /\ \E closed \in Finalized(handles) : handles' = handles \ closed
    /\ UNCHANGED <<size_arg, fileState, outFile, writes, epub, size, strategy,
                   cover_path, exc, im, calls>>

\* the end of the loop at line 205: get_cover falls off its end
ReturnNone ==
    /\ pc = "exhausted"
    /\ result' = PyNone
    /\ pc' = "done"
    /\ \E closed \in Finalized(handles) : handles' = handles \ closed
    /\ UNCHANGED <<size_arg, fileState, outFile, writes, epub, size, strategy,
                   cover_path, exc, im, calls>>

\* HandleException swallowing the error and going on with the loop.
HandleException_FallsThrough ==
    /\ pc = "except"
    /\ strategy' = strategy + 1
    /\ pc' = IF strategy < Len(StrategyNames) THEN "strategy" ELSE "exhausted"
    /\ UNCHANGED <<size_arg, fileState, outFile, writes, epub, size,
                   cover_path, exc, result, handles, im, calls>>

\* lines 210-213: the handler.  Building the message evaluates
\* stratey.__name__; no name stratey is bound in any scope, so the f-string
\* raises NameError before EpubThumbnailerException is constructed, and the
\* NameError (its __context__ the original error) is what leaves get_cover.
HandleException ==
    /\ pc = "except"
    /\ exc' = [type |-> "NameError", msg |-> "name 'stratey' is not defined",
               context |-> exc]
    /\ pc' = "raised"
    /\ UNCHANGED <<size_arg, fileState, outFile, writes, epub, size, strategy,
                   cover_path, result, handles, im, calls>>

Next ==
    \/ FormalChecks
    \/ OpenArchive
    \/ CallManifestStrategy
    \/ CallFilenameStrategy
    \/ ExtractCoverNone
    \/ ExtractCoverOpen
    \/ ExtractCoverDecode
    \/ ExtractCoverThumbnail
    \/ ExtractCoverConvert
    \/ ExtractCoverSave
    \/ ExtractCoverSaveFails
    \/ ReturnOutput
    \/ ReturnNone
    \/ HandleException

(***************************************************************************)
(* Inputs.                                                                 *)
(***************************************************************************)
RECURSIVE SeqsUpTo(_, _)
SeqsUpTo(S, n) ==
    IF n = 0 THEN {<<>>}
    ELSE LET shorter == SeqsUpTo(S, n - 1)
         IN shorter \cup {Append(q, x) : q \in shorter, x \in S}

S_c1 == <<"c","1">>
S_x1 == <<"x","1">>
S_cover_image == <<"c","o","v","e","r","-","i","m","a","g","e">>
S_dc_title == <<"d","c",":","t","i","t","l","e">>
P_c_opf == <<"c",".","o","p","f">>
P_O_c_opf == <<"O","/","c",".","o","p","f">>
H_t_htm == <<"t",".","h","t","m">>
H_A_PNG == <<"A",".","P","N","G">>
H_i_c_jpg == <<"i","/","c",".","j","p","g">>
H_abs_x_png == <<"/","x",".","p","n","g">>
N_O_A_PNG == <<"O","/","A",".","P","N","G">>
N_O_i_c_jpg == <<"O","/","i","/","c",".","j","p","g">>
N_Cover_PNG == <<"i","/","C","o","v","e","r",".","P","N","G">>
N_a_png == <<"a",".","p","n","g">>
N_B_JPG == <<"B",".","J","P","G">>
N_b_jpeg == <<"b",".","j","p","e","g">>
N_cover_jpg_bak == <<"c","o","v","e","r",".","j","p","g",".","b","a","k">>
N_mimetype == <<"m","i","m","e","t","y","p","e">>
N_jpg_cover == <<"j","p","g",".","c","o","v","e","r">>

Meta(name, content) == [name |-> name, content |-> content]
Item(id, properties, href) == [id |-> id, properties |-> properties, href |-> href]

\* The archive of a book: the container descriptor, the package document
\* and the other entries, in that stored order (Absent leaves one out).
Absent == [k |-> "absent"]
Book(container, rootfile_path, package, others) ==
    Archive((IF container = Absent THEN <<>>
             ELSE <<Entry(ContainerPath, 1, container)>>)
            \o (IF package = Absent THEN <<>>
                ELSE <<Entry(rootfile_path, 1, package)>>)
            \o others)

\* ---- get_cover_from_manifest on its own ----
MetaLists ==
    {<<>>,
     <<Meta(S_cover, S_c1)>>,
     <<Meta(S_cover, <<>>)>>,
     <<Meta(S_cover, S_cover_image)>>,
     <<Meta(S_dc_title, S_c1), Meta(S_cover, S_c1)>>,
     <<Meta(S_cover, S_cover_image), Meta(S_cover, S_c1)>>}

ItemPool ==
    {Item(S_c1, <<>>, H_t_htm),
     Item(S_c1, <<>>, H_abs_x_png),
     Item(S_c1, <<>>, <<>>),
     Item(S_cover, <<>>, H_A_PNG),
     Item(S_cover, <<>>, H_t_htm),
     Item(S_x1, S_cover_image, H_i_c_jpg),
     Item(S_x1, S_cover_image, H_t_htm),
     Item(S_x1, <<>>, H_A_PNG),
     Item(<<>>, <<>>, H_t_htm)}

RootfilePaths == {P_c_opf, P_O_c_opf}

ManifestArchives ==
    {Book(Xml(<<rp>>, <<>>, <<>>), rp, Xml(<<>>, metas, <<items>>), <<>>) :
         rp \in RootfilePaths, metas \in MetaLists,
         items \in SeqsUpTo(ItemPool, MaxItems)}
    \cup {Book(Xml(<<P_c_opf>>, <<>>, <<>>), P_c_opf, Xml(<<>>, metas, <<>>), <<>>) :
              metas \in MetaLists}
    \cup {Book(Absent, P_c_opf, Absent, <<>>),
          Book(Junk, P_c_opf, Absent, <<>>),
          Book(Xml(<<>>, <<>>, <<>>), P_c_opf, Absent, <<>>),
          Book(Xml(<<P_c_opf>>, <<>>, <<>>), P_c_opf, Absent, <<>>),
          Book(Xml(<<P_c_opf>>, <<>>, <<>>), P_c_opf, Junk, <<>>)}

\* ---- get_cover_by_filename on its own ----
ImagePool ==
    {Entry(N_a_png, 1, ImageData("RGB", TRUE)),
     Entry(N_a_png, 2, ImageData("RGB", TRUE)),
     Entry(N_B_JPG, 2, ImageData("RGB", TRUE)),
     Entry(N_b_jpeg, 3, ImageData("RGB", TRUE)),
     Entry(N_Cover_PNG, 1, ImageData("RGB", TRUE)),
     Entry(N_cover_jpg_bak, 1, Junk),
     Entry(N_jpg_cover, 3, Junk),
     Entry(N_mimetype, 3, Junk)}

FilenameArchives == {Archive(q) : q \in SeqsUpTo(ImagePool, MaxImages)}

\* ---- get_cover ----
BookSizes ==
    {PyNone, PyStr(<<"0","x","1">>), PyStr(<<"a","x">>)}

BookMetaLists == {<<>>, <<Meta(S_cover, S_c1)>>}

BookItemPool ==
    {Item(S_c1, <<>>, H_A_PNG),
     Item(S_cover, <<>>, H_i_c_jpg),
     Item(S_x1, <<>>, H_t_htm)}

BookEntryPool ==
    {Entry(N_O_A_PNG, 2, ImageData("RGB", TRUE)),
     Entry(N_O_i_c_jpg, 1, ImageData("CMYK", TRUE)),
     Entry(N_a_png, 3, Junk),
     Entry(N_B_JPG, 3, ImageData("F", TRUE)),
     Entry(N_Cover_PNG, 1, ImageData("RGB", FALSE))}

BookPackages ==
    {Xml(<<>>, metas, <<items>>) :
         metas \in BookMetaLists, items \in SeqsUpTo(BookItemPool, MaxBookItems)}
    \cup {Xml(<<>>, <<>>, <<>>), Junk, Absent}

Books ==
    {Book(Xml(<<P_O_c_opf>>, <<>>, <<>>), P_O_c_opf, package, others) :
         package \in BookPackages,
         others \in SeqsUpTo(BookEntryPool, MaxBookEntries)}
    \cup {Book(container, P_O_c_opf, Absent, others) :
              container \in {Absent, Junk, Xml(<<>>, <<>>, <<>>)},
              others \in SeqsUpTo(BookEntryPool, MaxBookEntries)}
    \cup {Book(Xml(<<P_c_opf>>, <<>>, <<>>), P_c_opf,
               Xml(<<>>, <<Meta(S_cover, S_c1)>>, <<<<Item(S_c1, <<>>, <<>>)>>>>),
               others) :
              others \in SeqsUpTo(BookEntryPool, MaxBookEntries)}

(***************************************************************************)
(* Specifications.                                                         *)
(***************************************************************************)
Idle ==
    /\ outFile \in {"absent", "old"}
    /\ writes = 0
    /\ cover_path = PyNone
    /\ exc = NoExc
    /\ result = PyNone
    /\ im = NoImage
    /\ calls = <<>>

\* A call get_cover(filein, fileimg, size).
Init ==
    /\ pc = "start"
    /\ size_arg \in BookSizes
    /\ \/ fileState = "zip" /\ epub \in Books
       \/ fileState \in {"missing", "notzip"} /\ epub = Archive(<<>>)
    /\ handles = {}
    /\ size = <<>>
    /\ strategy = 0
    /\ Idle

Spec == Init /\ [][Next]_vars

\* _formal_checks, and with it _parse_size, over the size inputs.
InitSize ==
    /\ pc = "start"
    /\ size_arg \in SizeInputs
    /\ fileState = "zip"
    /\ epub = Archive(<<>>)
    /\ handles = {}
    /\ size = <<>>
    /\ strategy = 0
    /\ Idle

SpecSize == InitSize /\ [][FormalChecks]_vars

\* The first turn of the loop, strategy(epub) with get_cover_from_manifest,
\* over the package documents.
InitManifest ==
    /\ pc = "strategy"
    /\ size_arg = PyNone
    /\ fileState = "zip"
    /\ epub \in ManifestArchives
    /\ handles = {"epub"}
    /\ size = <<DefaultSize, DefaultSize>>
    /\ strategy = 1
    /\ Idle

SpecManifest == InitManifest /\ [][CallManifestStrategy]_vars

\* The second turn of the loop, strategy(epub) with get_cover_by_filename,
\* over the entry lists.
InitFilename ==
    /\ pc = "strategy"
    /\ size_arg = PyNone
    /\ fileState = "zip"
    /\ epub \in FilenameArchives
    /\ handles = {"epub"}
    /\ size = <<DefaultSize, DefaultSize>>
    /\ strategy = 2
    /\ Idle

SpecFilename == InitFilename /\ [][CallFilenameStrategy]_vars

(***************************************************************************)
(* What the properties below speak of.                                     *)
(***************************************************************************)
Terminated == pc \in {"done", "raised"}
ReturnedNone == pc = "done" /\ result = PyNone
LoopEntered == strategy >= 1

\* The archive has a container descriptor that names a package document
\* which is in the archive, both well-formed XML.
HasPackage(e) ==
    /\ HasEntry(e, ContainerPath)
    /\ GetInfo(e, ContainerPath).data.k = "xml"
    /\ GetInfo(e, ContainerPath).data.rootfile # <<>>
    /\ HasEntry(e, GetInfo(e, ContainerPath).data.rootfile[1])
    /\ GetInfo(e, GetInfo(e, ContainerPath).data.rootfile[1]).data.k = "xml"
RootfilePath(e) == GetInfo(e, ContainerPath).data.rootfile[1]
PackageDoc(e) == GetInfo(e, RootfilePath(e)).data

\* An href that ends, in any case, with .jpg, .jpeg or .png.
ImageLike(href) ==
    \E ext \in ImgExts :
        /\ Len(href) >= Len(ext)
        /\ Lower(SubSeq(href, Len(href) - Len(ext) + 1, Len(href))) = ext

\* The content of the meta element named cover; unset when there is none.
DeclaredCoverId(doc) ==
    IF \E i \in 1..Len(doc.meta) : doc.meta[i].name = S_cover
    THEN LET first == CHOOSE i \in 1..Len(doc.meta) :
                          /\ doc.meta[i].name = S_cover
                          /\ \A j \in 1..(i - 1) : doc.meta[j].name # S_cover
         IN PyStr(doc.meta[first].content)
    ELSE PyNone

\* The cover predicate of the manifest resolver, as it is specified.
CoverPredicate(item, cover_id) ==
    \/ PyStr(item.id) = cover_id
    \/ Contains(item.id, S_cover) /\ ImageLike(item.href)
    \/ PyStr(item.properties) = cover_id
    \/ Contains(item.properties, S_cover) /\ ImageLike(item.href)

MatchingItems(doc) ==
    {i \in 1..Len(doc.manifest[1]) :
         CoverPredicate(doc.manifest[1][i], DeclaredCoverId(doc))}

Least(S) == CHOOSE i \in S : \A j \in S : i <= j

NoCoverItem(doc) == doc.manifest = <<>> \/ MatchingItems(doc) = {}

CalledFilename == \E i \in 1..Len(calls) : calls[i].fn = "get_cover_by_filename"

\* No entry of the archive has an image-like or cover-like name.
NoImageEntries(e) ==
    \A i \in 1..Len(e.filelist) :
        /\ ~img_ext_regex_match(e.filelist[i].filename)
        /\ ~cover_regex_match(e.filelist[i].filename)

(***************************************************************************)
(* Properties.                                                             *)
(***************************************************************************)
\* C1: whenever a strategy or the extract_cover call after it raises, the
\* caller receives an EpubThumbnailerException that carries the name of the
\* strategy that failed and the message of the original error.
C1_WrappedError ==
    (pc = "raised" /\ calls # <<>>) =>
        /\ exc.type = "EpubThumbnailerException"
        /\ exc.strategy = StrategyNames[strategy]
        /\ exc.original \in {"container", "rootfile", "manifest", "cover",
                             "image file is truncated", "thumbnail size", "save"}

\* C2: get_cover_by_filename runs only as the third call of the loop, after
\* get_cover_from_manifest returned and extract_cover returned False for its
\* candidate; once the manifest strategy or the extraction of its candidate
\* has raised, the filename strategy is not run.
C2_FilenameOnlyAfterNotFound ==
    /\ \A i \in 1..Len(calls) :
           calls[i].fn = "get_cover_by_filename" =>
               /\ i = 3
               /\ calls[1] = Call("get_cover_from_manifest", "returned")
               /\ calls[2] = Call("extract_cover", "False")
    /\ (/\ Len(calls) >= 1
        /\ \E i \in 1..Len(calls) : i <= 2 /\ calls[i].outcome = "raised")
           => (~CalledFilename /\ pc \in {"except", "raised"})

C2_Witness ==
    /\ Len(calls) >= 3
    /\ calls[3].fn = "get_cover_by_filename"
    /\ calls[2] = Call("extract_cover", "False")

\* C3: for an archive with no container descriptor and no image-like entry,
\* get_cover returns None and raises nothing.
C3_NoMetadataNoImagesIsNone ==
    (/\ Terminated
     /\ LoopEntered
     /\ ~HasEntry(epub, ContainerPath)
     /\ NoImageEntries(epub)) => ReturnedNone

\* C4: when the package document has no manifest element, or no manifest
\* item satisfies the cover predicate, get_cover_from_manifest returns None
\* without raising and get_cover goes on to run get_cover_by_filename.
C4_NoCandidateIsNotAnError ==
    (/\ Len(calls) >= 1
     /\ HasPackage(epub)
     /\ NoCoverItem(PackageDoc(epub))) =>
        /\ calls[1] = Call("get_cover_from_manifest", "returned")
        /\ Terminated => CalledFilename

\* C5: on every exit of get_cover after the archive was opened, the archive
\* and every entry stream opened have been closed.
C5_AllClosedOnExit == Terminated => handles = {}

\* C6: every pair _parse_size returns has a width > 0 and a height > 0.
C6_SizePositive == pc = "open" => (size[1] > 0 /\ size[2] > 0)

\* C7 (as claimed): every candidate a resolver yields and get_cover passes
\* to extract_cover names an entry that exists in the archive.
C7_CandidateExists ==
    (pc = "extract" /\ Truthy(cover_path)) => CandidateExists(epub, cover_path)

\* C7 (amended): every candidate get_cover_by_filename yields names an entry
\* of the archive, and so does every candidate extract_cover gets past
\* opening, in particular every one the output is written from; a non-empty
\* candidate of get_cover_from_manifest that names no entry makes
\* extract_cover raise KeyError with the output file untouched.
C7_ExistingWhenOpened ==
    /\ (pc = "extract" /\ strategy = 2 /\ Truthy(cover_path))
           => CandidateExists(epub, cover_path)
    /\ (pc \in {"decode", "thumbnail", "convert", "save", "return_output"}
            \/ writes > 0)
           => CandidateExists(epub, cover_path)
    /\ (/\ Truthy(cover_path)
        /\ ~CandidateExists(epub, cover_path)
        /\ pc \notin {"extract", "strategy"})
           => /\ strategy = 1
              /\ calls[Len(calls)] = Call("extract_cover", "raised")
              /\ writes = 0
              /\ \/ pc = "except" /\ exc.type = "KeyError"
                 \/ pc = "raised" /\ exc.context.type = "KeyError"

C7_Witness ==
    /\ pc = "decode"
    /\ strategy = 2
    /\ cover_path.t = "str"

\* C8: the output file is written at most once, only after the image was
\* decoded and resized; a run that raises or returns None has not written
\* it; get_cover returns the output path exactly when the write happened.
C8_SingleWriteOrNone ==
    /\ writes <= 1
    /\ writes > 0 => im.resized
    /\ (pc = "raised" \/ ReturnedNone)
           => (writes = 0 /\ outFile \in {"absent", "old"})
    /\ pc = "done" => (result = PyStr(OutputPath) <=> writes = 1)

\* The entries the filename resolver is specified to choose.
FirstCoverNamed(filelist) ==
    CHOOSE i \in 1..Len(filelist) :
        /\ cover_regex_match(filelist[i].filename)
        /\ \A j \in 1..(i - 1) : ~cover_regex_match(filelist[j].filename)
FirstLargestImage(filelist) ==
    CHOOSE i \in 1..Len(filelist) :
        /\ img_ext_regex_match(filelist[i].filename)
        /\ \A j \in 1..Len(filelist) :
               img_ext_regex_match(filelist[j].filename) =>
                   /\ filelist[j].file_size <= filelist[i].file_size
                   /\ j < i => filelist[j].file_size < filelist[i].file_size

\* C9: get_cover_by_filename returns the name of the first entry whose name
\* matches the cover pattern; else the name of the image-extension entry of
\* the largest size, the first of them in stored order; else None.
C9_FilenameResult ==
    (pc = "extract" /\ strategy = 2) =>
        LET filelist == epub.filelist
        IN IF \E i \in 1..Len(filelist) : cover_regex_match(filelist[i].filename)
           THEN cover_path = PyStr(filelist[FirstCoverNamed(filelist)].filename)
           ELSE IF \E i \in 1..Len(filelist) : img_ext_regex_match(filelist[i].filename)
           THEN cover_path = PyStr(filelist[FirstLargestImage(filelist)].filename)
           ELSE cover_path = PyNone

\* C10: for a package document with a manifest, get_cover_from_manifest
\* returns the href of the first item in document order that satisfies the
\* cover predicate, joined onto the directory of the rootfile path, every
\* item before it failing the predicate (None when no item satisfies it);
\* cover_id is the content of the meta named cover, unset without one.
C10_FirstMatchingItem ==
    (/\ Len(calls) >= 1
     /\ HasPackage(epub)
     /\ PackageDoc(epub).manifest # <<>>) =>
        LET doc == PackageDoc(epub)
            items == doc.manifest[1]
        IN /\ calls[1] = Call("get_cover_from_manifest", "returned")
           /\ IF MatchingItems(doc) = {}
              THEN cover_path = PyNone
              ELSE LET k == Least(MatchingItems(doc))
                   IN /\ cover_path =
                             PyStr(join(dirname(RootfilePath(epub)), items[k].href))
                      /\ \A j \in 1..(k - 1) :
                             ~CoverPredicate(items[j], DeclaredCoverId(doc))

C10_Witness ==
    /\ Len(calls) >= 1
    /\ HasPackage(epub)
    /\ PackageDoc(epub).manifest # <<>>
    /\ MatchingItems(PackageDoc(epub)) # {}
    /\ Least(MatchingItems(PackageDoc(epub))) = 2
    /\ PackageDoc(epub).manifest[1][2].properties = S_cover_image
    /\ cover_path.t = "str"

====
